---------------------------- MODULE Spec2Model ----------------------------
(***************************************************************************)
(* A model of sebosp/cooper: the replay timeline extractor                 *)
(* (extract_game_snapshots), the unit classification table                 *)
(* (get_unit_sized_color, user_color) and the yew component App that       *)
(* reads uploaded replay files and collects the processed replays.         *)
(*                                                                         *)
(* Five specifications share the module:                                   *)
(*   SpecExtract  one call of extract_game_snapshots on a bounded input    *)
(*   SpecColor    calls of get_unit_sized_color / user_color for one unit  *)
(*   SpecArray    one call of ColorRGBA::to_array                          *)
(*   SpecRender   App::rendered, render_gl and the animation loop          *)
(*   Spec         the component App: Msg::Files, read completions and      *)
(*                Msg::Loaded                                              *)
(*                                                                         *)
(* A u32 is kept at its width as two 16-bit limbs <<hi, lo>> (the value is *)
(* hi * 65536 + lo), because the model checker's integers are 32-bit       *)
(* signed.  i32, i64 and u8 values are plain integers.                     *)
(***************************************************************************)
EXTENDS Integers, Sequences, FiniteSets, TLC

VARIABLES
    overflow_checks, \* the build: TRUE when integer overflow checks are on
    ev_in,           \* the Vec<TrackerEvent> given to extract_game_snapshots
    ev_out,          \* <<>> before the call, <<result>> after it
    cl_name,         \* the unit name being classified (a sequence of chars)
    cl_calls,        \* the calls of get_unit_sized_color made, with results
    uc_calls,        \* the calls of user_color made, with results
    console,         \* number of diagnostics emitted with log!
    tasks,           \* every file read started so far (index = task id)
    readers,         \* App.readers: file name -> task id of its FileReader
    files,           \* App.files: Vec<ProcessedReplay>
    completed,       \* task ids in the order their read callbacks ran
    halted,          \* TRUE once update handles no message any more
    arr_in,          \* the ColorRGBA given to to_array
    arr_out,         \* <<>> before the call, <<[u8; 4]>> after it
    rendered_count,  \* number of calls of App::rendered so far
    render_gl_calls, \* number of calls of App::render_gl so far
    loops,           \* `timestamp` of each render_gl call's closure
    pending,         \* per render_gl call: animation callbacks scheduled
    u_time,          \* the value last given to the uniform u_time
    draws,           \* number of gl.draw_arrays calls so far
    frames,          \* number of animation-frame callbacks run so far
    webgl,           \* what the canvas and its WebGL context provide
    raf_panicked     \* TRUE once a call of request_animation_frame panicked

vars == <<overflow_checks, ev_in, ev_out, cl_name, cl_calls, uc_calls,
          console, tasks, readers, files, completed, halted, arr_in,
          arr_out, rendered_count, render_gl_calls, loops, pending, u_time,
          draws, frames, webgl, raf_panicked>>

extractVars == <<ev_in, ev_out>>
colorVars == <<cl_name, cl_calls, uc_calls>>
appVars == <<tasks, readers, files, completed, halted>>
arrayVars == <<arr_in, arr_out>>
renderVars == <<rendered_count, render_gl_calls, loops, pending, u_time,
                draws, frames, webgl, raf_panicked>>

---------------------------------------------------------------------------
(* Bounds of the model.                                                    *)

\* Longest event sequence given to extract_game_snapshots.
MaxEvents == 3

---------------------------------------------------------------------------
(* 32-bit unsigned integers as two 16-bit limbs.                           *)

\* 2^16: one limb of a u32.
Limb == 65536

U32(hi, lo) == <<hi, lo>>

U32Zero == U32(0, 0)

\* u32::MAX = 0xFFFFFFFF
U32Max == U32(Limb - 1, Limb - 1)

\* a <= b on limb pairs (hi may exceed a limb in an exact, unwrapped sum).
LeqU32(a, b) == a[1] < b[1] \/ (a[1] = b[1] /\ a[2] <= b[2])

\* The exact sum of two limb pairs: the hi limb is left unreduced, so the
\* result is the mathematical sum even when it does not fit in 32 bits.
ExactAdd(a, b) ==
    LET lo == a[2] + b[2]
    IN  <<a[1] + b[1] + (lo \div Limb), lo % Limb>>

\* `frame += event.delta` on u32: the sum reduced to 32 bits, and whether it
\* overflowed.
AddU32(a, b) ==
    LET s == ExactAdd(a, b)
    IN  [overflow |-> s[1] >= Limb, value |-> U32(s[1] % Limb, s[2])]

Min(a, b) == IF a <= b THEN a ELSE b

---------------------------------------------------------------------------
(* Timeline extractor: lib.rs, extract_game_snapshots.                     *)

\* The kind of ReplayTrackerEvent that produces a snapshot.
PlayerStatsKind == "PlayerStats"

\* Other kinds of ReplayTrackerEvent (their payloads are never read).
OtherKinds == {"UnitBorn"}

\* event.delta values: 0, 3 and u32::MAX.
Deltas == {U32Zero, U32(0, 3), U32Max}

\* PlayerStatsEvent { player_id: u8, stats: PlayerStats { .. i32 fields } }.
PlayerStatsEvent(id, mc, vc, fm, fu, afm, afv) ==
    [player_id |-> id,
     stats |-> [minerals_current |-> mc, vespene_current |-> vc,
                food_made |-> fm, food_used |-> fu,
                minerals_used_active_forces |-> afm,
                vespene_used_active_forces |-> afv]]

\* The payloads tried.  The fields of one payload differ from each other,
\* so that a snapshot field copied from the wrong source field shows;
\* food_made is below, at, just above and far above the ceiling of 200,
\* and negative.
Payloads ==
    { PlayerStatsEvent(1, 50, 25, 15, 12, 100, 75),
      PlayerStatsEvent(2, 75, 0, 250, 199, 600, 150),
      PlayerStatsEvent(255, -3, 7, -5, -1, 4, 2),
      PlayerStatsEvent(0, 2147483647, 201, 200, 202, 203, 204),
      PlayerStatsEvent(3, 199, 198, 201, 197, 196, 195) }

\* TrackerEvent { delta, event }.
TrackerEvents ==
    { [delta |-> d, event |-> [kind |-> PlayerStatsKind, payload |-> p]] :
          d \in Deltas, p \in Payloads }
    \cup
    { [delta |-> d, event |-> [kind |-> k]] : d \in Deltas, k \in OtherKinds }

\* All event vectors of at most n events.
EventSeqs(n) == UNION { [1..k -> TrackerEvents] : k \in 0..n }

\* The engine's supply ceiling, the argument of `.min(200)`.
SupplyCeiling == 200

\* A faulty variant: food_made copied without the clamp.
SupplyAvailable_NoClamp(food_made) == food_made

\* supply_available: player_stats_event.stats.food_made.min(200)
SupplyAvailable(food_made) == Min(food_made, SupplyCeiling)

\* A faulty variant: minerals and vespene copied from each other's source.
GameSnapshot_SwappedResources(frame, player_stats_event) ==
    [frame |-> frame,
     user_id |-> player_stats_event.player_id,
     minerals |-> player_stats_event.stats.vespene_current,
     vespene |-> player_stats_event.stats.minerals_current,
     supply_available |->
         Min(player_stats_event.stats.food_made, SupplyCeiling),
     supply_used |-> player_stats_event.stats.food_used,
     active_force_minerals |->
         player_stats_event.stats.minerals_used_active_forces,
     active_force_vespene |->
         player_stats_event.stats.vespene_used_active_forces]

\* The GameSnapshot pushed for a PlayerStats event at `frame`.
GameSnapshot(frame, player_stats_event) ==
    [frame |-> frame,
     user_id |-> player_stats_event.player_id,
     minerals |-> player_stats_event.stats.minerals_current,
     vespene |-> player_stats_event.stats.vespene_current,
     supply_available |->
         SupplyAvailable(player_stats_event.stats.food_made),
     supply_used |-> player_stats_event.stats.food_used,
     active_force_minerals |->
         player_stats_event.stats.minerals_used_active_forces,
     active_force_vespene |->
         player_stats_event.stats.vespene_used_active_forces]

\* `match event.event { PlayerStats(..) => push, _ => {} }`
EmitsSnapshot(event) == event.kind = PlayerStatsKind

\* `frame += event.delta`: with overflow checks the addition panics when the
\* sum does not fit in a u32, without them it wraps.
AdvanceFrame(frame, delta, checks) ==
    LET s == AddU32(frame, delta)
    IN  [panicked |-> checks /\ s.overflow, frame |-> s.value]

\* The loop of extract_game_snapshots from event i on, with the running
\* `frame` and the `snapshots` pushed so far.
RECURSIVE ExtractLoop(_, _, _, _, _)
ExtractLoop(tracker_events, i, frame, snapshots, checks) ==
    IF i > Len(tracker_events)
    THEN [panicked |-> FALSE, snapshots |-> snapshots]
    ELSE LET event == tracker_events[i]
             f == AdvanceFrame(frame, event.delta, checks)
         IN  IF f.panicked
             THEN [panicked |-> TRUE, snapshots |-> <<>>]
             ELSE ExtractLoop(
                      tracker_events, i + 1, f.frame,
                      IF EmitsSnapshot(event.event)
                      THEN Append(snapshots,
                                  GameSnapshot(f.frame, event.event.payload))
                      ELSE snapshots,
                      checks)

\* extract_game_snapshots(tracker_events): the snapshots returned, or
\* panicked when the frame addition overflowed in a checked build.
extract_game_snapshots(tracker_events, checks) ==
    ExtractLoop(tracker_events, 1, U32Zero, <<>>, checks)

---------------------------------------------------------------------------
(* SpecExtract: one call of extract_game_snapshots.                        *)

\* The state of the parts of the model a specification does not exercise.
ExtractIdle == ev_in = <<>> /\ ev_out = <<>>
ColorIdle == cl_name = <<>> /\ cl_calls = {} /\ uc_calls = {}
AppIdle ==
    /\ tasks = <<>>
    /\ readers = {}
    /\ files = <<>>
    /\ completed = <<>>
    /\ halted = FALSE
ArrayIdle == arr_in = <<>> /\ arr_out = <<>>
RenderIdle ==
    /\ rendered_count = 0
    /\ render_gl_calls = 0
    /\ loops = <<>>
    /\ pending = <<>>
    /\ u_time = 0
    /\ draws = 0
    /\ frames = 0
    /\ webgl = "ok"
    /\ raf_panicked = FALSE

InitExtract ==
    /\ overflow_checks \in BOOLEAN
    /\ ev_in \in EventSeqs(MaxEvents)
    /\ ev_out = <<>>
    /\ console = 0
    /\ ColorIdle
    /\ AppIdle
    /\ ArrayIdle
    /\ RenderIdle

\* The call: ev_out receives what extract_game_snapshots(ev_in) produces.
ExtractCall ==
    /\ ev_out = <<>>
    /\ ev_out' = <<extract_game_snapshots(ev_in, overflow_checks)>>
    /\ UNCHANGED <<overflow_checks, ev_in, console, colorVars, appVars,
                       arrayVars, renderVars>>

NextExtract == ExtractCall

SpecExtract == InitExtract /\ [][NextExtract]_vars

---------------------------------------------------------------------------
(* Properties of extract_game_snapshots, stated on the input ev_in and the *)
(* result ev_out of SpecExtract.                                           *)

\* The call has returned a vector (it did not panic).
Returned == ev_out # <<>> /\ ~ev_out[1].panicked

\* The snapshots returned.
Out == ev_out[1].snapshots

IsPlayerStatsAt(i) == ev_in[i].event.kind = "PlayerStats"

\* The positions in ev_in of the PlayerStats events, in input order.
Positions == SelectSeq([i \in 1..Len(ev_in) |-> i], IsPlayerStatsAt)

\* The PlayerStatsEvent the n-th snapshot has to come from.
SourceOf(n) == ev_in[Positions[n]].event.payload

\* The exact (unwrapped) sum of the deltas of ev_in[1..i].
RECURSIVE DeltaSum(_)
DeltaSum(i) ==
    IF i = 0 THEN U32Zero ELSE ExactAdd(DeltaSum(i - 1), ev_in[i].delta)

\* The sum of all the deltas of the input fits in a u32.
SumFits == DeltaSum(Len(ev_in))[1] < Limb

\* C1 (as claimed): the frame of each emitted snapshot equals the sum of the
\* delta values of all events from the start of the stream up to and
\* including the event that produced the snapshot.
C1_FrameIsSumOfDeltas ==
    Returned =>
        \A n \in 1..Len(Out) :
            n <= Len(Positions) => Out[n].frame = DeltaSum(Positions[n])

\* C2: the output is the order-preserving projection of the PlayerStats
\* events: as many snapshots as PlayerStats events (so at most the input
\* length), the n-th snapshot built from the n-th PlayerStats event, and
\* user_id, minerals, vespene, supply_used, active_force_minerals and
\* active_force_vespene copied unchanged from that event's payload.
C2_ProjectionOfPlayerStats ==
    Returned =>
        /\ Len(Out) = Len(Positions)
        /\ Len(Out) <= Len(ev_in)
        /\ \A n \in 1..Len(Out) :
               n <= Len(Positions) =>
                   /\ Out[n].user_id = SourceOf(n).player_id
                   /\ Out[n].minerals = SourceOf(n).stats.minerals_current
                   /\ Out[n].vespene = SourceOf(n).stats.vespene_current
                   /\ Out[n].supply_used = SourceOf(n).stats.food_used
                   /\ Out[n].active_force_minerals =
                          SourceOf(n).stats.minerals_used_active_forces
                   /\ Out[n].active_force_vespene =
                          SourceOf(n).stats.vespene_used_active_forces

\* C2's case: a returned vector of two snapshots with different payloads,
\* from an input that also holds an event of another kind before them.
C2_Witness ==
    /\ Returned
    /\ Len(ev_in) = 3
    /\ Len(Out) = 2
    /\ ev_in[1].event.kind # "PlayerStats"
    /\ Out[1].user_id # Out[2].user_id

\* C3: supply_available is at most 200 in every emitted snapshot; a
\* food_made at or below 200 (negative included) is copied unchanged, one
\* above 200 becomes exactly 200, and no food_made value makes the call
\* fail (it returns whenever the frame counter does not overflow).
C3_SupplyClamped ==
    /\ Returned =>
           \A n \in 1..Len(Out) :
               n <= Len(Positions) =>
                   LET food_made == SourceOf(n).stats.food_made
                   IN  /\ Out[n].supply_available <= 200
                       /\ food_made <= 200 =>
                              Out[n].supply_available = food_made
                       /\ food_made > 200 => Out[n].supply_available = 200
    /\ (ev_out # <<>> /\ SumFits) => ~ev_out[1].panicked

\* C3's case: snapshots from a food_made above 200, one of exactly 200 and
\* a negative one.
C3_Witness ==
    /\ Returned
    /\ Len(Out) = 3
    /\ Len(Positions) = 3
    /\ SourceOf(1).stats.food_made > 200
    /\ SourceOf(2).stats.food_made < 0
    /\ SourceOf(3).stats.food_made = 200
    /\ Out[1].supply_available = 200

\* C4 (as claimed): the frames of the emitted snapshots are monotonically
\* non-decreasing in output order, also when the deltas sum past u32::MAX.
C4_FramesNonDecreasing ==
    Returned =>
        \A i, j \in 1..Len(Out) :
            i < j => LeqU32(Out[i].frame, Out[j].frame)

---------------------------------------------------------------------------
(* Classification table: colors.rs.  A &str is a sequence of one-character *)
(* strings, so that `starts_with` and the exact match of the table are     *)
(* computed on the characters.  A size (f32) is kept in thousandths:       *)
(* 0.045 is 45.                                                            *)

\* ColorRGBA(pub u32): the packed value as two 16-bit limbs.
ColorRGBA(hi, lo) == U32(hi, lo)

\* 0xeb790700
FREYA_ORANGE == ColorRGBA(60281, 1792)
\* 0xea9e3600
FREYA_GOLD == ColorRGBA(60062, 13824)
\* 0xf8105300
FREYA_RED == ColorRGBA(63504, 21248)
\* 0x30b5f700
FREYA_BLUE == ColorRGBA(12469, 63232)
\* 0x0aeb9f00
FREYA_GREEN == ColorRGBA(2795, 40704)
\* 0x72c5dd00
FREYA_LIGHT_BLUE == ColorRGBA(29381, 56576)
\* 0xb2c5c500
FREYA_GRAY == ColorRGBA(45765, 50432)
\* 0xeaa48300
FREYA_PINK == ColorRGBA(60068, 33536)
\* 0xf4f5f800
FREYA_LIGHT_GRAY == ColorRGBA(62709, 63488)
\* 0x4da7c200
FREYA_DARK_BLUE == ColorRGBA(19879, 49664)
\* 0x37bda900
FREYA_DARK_GREEN == ColorRGBA(14269, 43264)
\* 0xae204400
FREYA_DARK_RED == ColorRGBA(44576, 17408)
\* 0xa401ed00
FREYA_VIOLET == ColorRGBA(41985, 60672)
\* 0xfaf8fb00
FREYA_WHITE == ColorRGBA(64248, 64256)
\* 0xf7d45400
FREYA_YELLOW == ColorRGBA(63444, 21504)
\* 0xead8ad00
FREYA_LIGHT_YELLOW == ColorRGBA(60120, 44288)
\* 0x6ec29c00
FREYA_LIGHT_GREEN == ColorRGBA(28354, 39936)

\* The string literals of colors.rs.
S_VespeneEDyser ==
    <<"V", "e", "s", "p", "e", "n", "e", "E", "D", "y", "s", "e", "r">>
S_SpacePlatformGeyser ==
    <<"S", "p", "a", "c", "e", "P", "l", "a", "t", "f", "o", "r", "m", "G",
      "e", "y", "s", "e", "r">>
S_LabMineralField ==
    <<"L", "a", "b", "M", "i", "n", "e", "r", "a", "l", "F", "i", "e", "l",
      "d">>
S_LabMineralField750 ==
    <<"L", "a", "b", "M", "i", "n", "e", "r", "a", "l", "F", "i", "e", "l",
      "d", "7", "5", "0">>
S_MineralField ==
    <<"M", "i", "n", "e", "r", "a", "l", "F", "i", "e", "l", "d">>
S_MineralField450 ==
    <<"M", "i", "n", "e", "r", "a", "l", "F", "i", "e", "l", "d", "4", "5",
      "0">>
S_MineralField750 ==
    <<"M", "i", "n", "e", "r", "a", "l", "F", "i", "e", "l", "d", "7", "5",
      "0">>
S_XelNagaTower ==
    <<"X", "e", "l", "N", "a", "g", "a", "T", "o", "w", "e", "r">>
S_RichMineralField ==
    <<"R", "i", "c", "h", "M", "i", "n", "e", "r", "a", "l", "F", "i", "e",
      "l", "d">>
S_RichMineralField750 ==
    <<"R", "i", "c", "h", "M", "i", "n", "e", "r", "a", "l", "F", "i", "e",
      "l", "d", "7", "5", "0">>
S_DestructibleDebris6x6 ==
    <<"D", "e", "s", "t", "r", "u", "c", "t", "i", "b", "l", "e", "D", "e",
      "b", "r", "i", "s", "6", "x", "6">>
S_UnbuildablePlatesDestructible ==
    <<"U", "n", "b", "u", "i", "l", "d", "a", "b", "l", "e", "P", "l", "a",
      "t", "e", "s", "D", "e", "s", "t", "r", "u", "c", "t", "i", "b", "l",
      "e">>
S_Overlord ==
    <<"O", "v", "e", "r", "l", "o", "r", "d">>
S_SCV ==
    <<"S", "C", "V">>
S_Drone ==
    <<"D", "r", "o", "n", "e">>
S_Probe ==
    <<"P", "r", "o", "b", "e">>
S_Larva ==
    <<"L", "a", "r", "v", "a">>
S_Hatchery ==
    <<"H", "a", "t", "c", "h", "e", "r", "y">>
S_CommandCenter ==
    <<"C", "o", "m", "m", "a", "n", "d", "C", "e", "n", "t", "e", "r">>
S_Nexus ==
    <<"N", "e", "x", "u", "s">>
S_Broodling ==
    <<"B", "r", "o", "o", "d", "l", "i", "n", "g">>
S_Beacon ==
    <<"B", "e", "a", "c", "o", "n">>


\* str::starts_with
StartsWith(str, prefix) ==
    /\ Len(str) >= Len(prefix)
    /\ SubSeq(str, 1, Len(prefix)) = prefix

\* `let mut unit_size = 0.045`, in thousandths.
DefaultUnitSize == 45

\* A faulty variant: ids without a color of their own get an unset color.
user_color_Unset(user_id) ==
    CASE user_id = 0 -> FREYA_LIGHT_GREEN
      [] user_id = 1 -> FREYA_LIGHT_BLUE
      [] user_id = 2 -> FREYA_LIGHT_GRAY
      [] user_id = 3 -> FREYA_ORANGE
      [] OTHER -> ColorRGBA(0, 0)

\* A faulty variant: the arm of id 3 is missing.
user_color_NoThree(user_id) ==
    CASE user_id = 0 -> FREYA_LIGHT_GREEN
      [] user_id = 1 -> FREYA_LIGHT_BLUE
      [] user_id = 2 -> FREYA_LIGHT_GRAY
      [] OTHER -> FREYA_WHITE

\* user_color(user_id: i64) -> ColorRGBA
user_color(user_id) ==
    CASE user_id = 0 -> FREYA_LIGHT_GREEN
      [] user_id = 1 -> FREYA_LIGHT_BLUE
      [] user_id = 2 -> FREYA_LIGHT_GRAY
      [] user_id = 3 -> FREYA_ORANGE
      [] OTHER -> FREYA_WHITE

\* A faulty variant: beacons are logged like any unknown unit.
IgnoredUnknown_None(unit_name) == FALSE

\* "Ignore the Beacons for now": an unmatched name that is not logged.
IgnoredUnknown(unit_name) == StartsWith(unit_name, S_Beacon)

\* What one arm of the match yields: the size, the color and the number of
\* log! calls made.
Sized(unit_size, color, logs) ==
    [size |-> unit_size, color |-> color, logs |-> logs]

\* get_unit_sized_color(unit_name: &str, user_id: i64) -> (f32, ColorRGBA),
\* with the number of diagnostics it emits.
get_unit_sized_color(unit_name, user_id) ==
    CASE unit_name = S_VespeneEDyser ->
             Sized(DefaultUnitSize, FREYA_LIGHT_GREEN, 0)
      [] unit_name = S_SpacePlatformGeyser ->
             Sized(DefaultUnitSize, FREYA_LIGHT_GREEN, 0)
      [] unit_name = S_LabMineralField -> Sized(24, FREYA_LIGHT_BLUE, 0)
      [] unit_name = S_LabMineralField750 -> Sized(36, FREYA_LIGHT_BLUE, 0)
      [] unit_name = S_MineralField -> Sized(48, FREYA_LIGHT_BLUE, 0)
      [] unit_name = S_MineralField450 -> Sized(60, FREYA_LIGHT_BLUE, 0)
      [] unit_name = S_MineralField750 -> Sized(72, FREYA_LIGHT_BLUE, 0)
      [] unit_name = S_XelNagaTower -> Sized(72, FREYA_WHITE, 0)
      [] unit_name = S_RichMineralField ->
             Sized(DefaultUnitSize, FREYA_GOLD, 0)
      [] unit_name = S_RichMineralField750 ->
             Sized(DefaultUnitSize, FREYA_ORANGE, 0)
      [] unit_name = S_DestructibleDebris6x6 -> Sized(180, FREYA_GRAY, 0)
      [] unit_name = S_UnbuildablePlatesDestructible ->
             Sized(60, FREYA_LIGHT_GRAY, 0)
      [] unit_name = S_Overlord -> Sized(60, FREYA_YELLOW, 0)
      [] unit_name \in {S_SCV, S_Drone, S_Probe, S_Larva} ->
             Sized(30, FREYA_LIGHT_GRAY, 0)
      [] unit_name \in {S_Hatchery, S_CommandCenter, S_Nexus} ->
             Sized(120, FREYA_PINK, 0)
      [] unit_name = S_Broodling -> Sized(6, FREYA_LIGHT_GRAY, 0)
      [] OTHER ->
             Sized(DefaultUnitSize, user_color(user_id),
                   IF ~IgnoredUnknown(unit_name) THEN 1 ELSE 0)

\* Option<u8>: <<>> is None, <<v>> is Some(v).
UnwrapOr(option, default) == IF option = <<>> THEN default ELSE option[1]

\* The user id of a unit without an owner.
NoOwnerId == 99

\* register_unit_init, for one unit of sc2_state.units: the id passed to
\* get_unit_sized_color is unit.user_id.unwrap_or(99u8) as i64.
OwnerId(unit_user_id) == UnwrapOr(unit_user_id, NoOwnerId)

---------------------------------------------------------------------------
(* SpecColor: calls of get_unit_sized_color and user_color.  One unit name *)
(* is drawn at the start; each call is recorded with its result, so that   *)
(* results of different calls can be compared.                             *)

\* Most calls recorded in one behaviour.
MaxCalls == 3

\* The names of the table and names that match no entry: the empty string,
\* the beacon prefix alone and with a suffix, a proper prefix of it, the
\* prefix inside a name, names that differ from an entry in case or by one
\* character, and unknown units.
UnitNames ==
    { S_VespeneEDyser, S_SpacePlatformGeyser, S_LabMineralField,
      S_LabMineralField750, S_MineralField, S_MineralField450,
      S_MineralField750, S_XelNagaTower, S_RichMineralField,
      S_RichMineralField750, S_DestructibleDebris6x6,
      S_UnbuildablePlatesDestructible, S_Overlord, S_SCV, S_Drone, S_Probe,
      S_Larva, S_Hatchery, S_CommandCenter, S_Nexus, S_Broodling }
    \cup
    { <<>>,
      S_Beacon,
      S_Beacon \o <<"A", "r", "m", "y">>,
      <<"B", "e", "a", "c", "o">>,
      <<"b", "e", "a", "c", "o", "n">>,
      <<"X">> \o S_Beacon,
      <<"s", "c", "v">>,
      S_MineralField \o <<"7">>,
      <<"M", "a", "r", "i", "n", "e">>,
      <<"T", "o", "t", "a", "l", "l", "y", "U", "n", "k", "n", "o", "w", "n",
        "U", "n", "i", "t">> }

\* The i64 participant ids tried.
UserIds == {-2147483647, -1, 0, 1, 2, 3, 4, 99, 255, 2147483647}

\* unit.user_id: Option<u8>.
UnitUserIds == {<<>>, <<0>>, <<2>>, <<3>>, <<7>>, <<255>>}

InitColor ==
    /\ overflow_checks = FALSE
    /\ cl_name \in UnitNames
    /\ cl_calls = {}
    /\ uc_calls = {}
    /\ console = 0
    /\ ExtractIdle
    /\ AppIdle
    /\ ArrayIdle
    /\ RenderIdle

CallsMade == Cardinality(cl_calls) + Cardinality(uc_calls)

\* One call get_unit_sized_color(cl_name, user_id); its log! calls reach the
\* console.
CallSizedColor(user_id) ==
    LET r == get_unit_sized_color(cl_name, user_id)
    IN  /\ cl_calls' = cl_calls \cup
               {[user_id |-> user_id, size |-> r.size, color |-> r.color,
                 logs |-> r.logs]}
        /\ console' = console + r.logs

\* A direct call of get_unit_sized_color.
Classify ==
    \E user_id \in UserIds :
        /\ CallsMade < MaxCalls
        /\ \A c \in cl_calls : c.user_id # user_id
        /\ CallSizedColor(user_id)
        /\ UNCHANGED <<overflow_checks, cl_name, uc_calls, extractVars,
                       appVars,
                       arrayVars, renderVars>>

\* The call made by register_unit_init for a unit named cl_name.
RegisterUnitInit ==
    \E unit_user_id \in UnitUserIds :
        /\ CallsMade < MaxCalls
        /\ \A c \in cl_calls : c.user_id # OwnerId(unit_user_id)
        /\ CallSizedColor(OwnerId(unit_user_id))
        /\ UNCHANGED <<overflow_checks, cl_name, uc_calls, extractVars,
                       appVars,
                       arrayVars, renderVars>>

\* A direct call of user_color.
UserColor ==
    \E user_id \in UserIds :
        /\ CallsMade < MaxCalls
        /\ \A c \in uc_calls : c.user_id # user_id
        /\ uc_calls' = uc_calls \cup
               {[user_id |-> user_id, color |-> user_color(user_id)]}
        /\ UNCHANGED <<overflow_checks, cl_name, cl_calls, console,
                       extractVars, appVars,
                       arrayVars, renderVars>>

NextColor == Classify \/ RegisterUnitInit \/ UserColor

SpecColor == InitColor /\ [][NextColor]_vars

---------------------------------------------------------------------------
(* Properties of the classification table, stated on the calls recorded by *)
(* SpecColor.                                                              *)

\* The palette constants of colors.rs.
Palette ==
    { FREYA_ORANGE, FREYA_GOLD, FREYA_RED, FREYA_BLUE, FREYA_GREEN,
      FREYA_LIGHT_BLUE, FREYA_GRAY, FREYA_PINK, FREYA_LIGHT_GRAY,
      FREYA_DARK_BLUE, FREYA_DARK_GREEN, FREYA_DARK_RED, FREYA_VIOLET,
      FREYA_WHITE, FREYA_YELLOW, FREYA_LIGHT_YELLOW, FREYA_LIGHT_GREEN }

\* The names that have an entry in the table of get_unit_sized_color.
TableNames ==
    { S_VespeneEDyser, S_SpacePlatformGeyser, S_LabMineralField,
      S_LabMineralField750, S_MineralField, S_MineralField450,
      S_MineralField750, S_XelNagaTower, S_RichMineralField,
      S_RichMineralField750, S_DestructibleDebris6x6,
      S_UnbuildablePlatesDestructible, S_Overlord, S_SCV, S_Drone, S_Probe,
      S_Larva, S_Hatchery, S_CommandCenter, S_Nexus, S_Broodling }

\* The name starts with "Beacon".
IsBeaconName(name) ==
    /\ Len(name) >= 6
    /\ <<name[1], name[2], name[3], name[4], name[5], name[6]>> =
           <<"B", "e", "a", "c", "o", "n">>

\* C5: get_unit_sized_color is total: for every unit name (the empty string
\* and names starting with "Beacon" included) and every participant id the
\* call returns a size strictly greater than 0 and a color that is one of
\* the palette constants.
C5_ClassifyTotal ==
    \A c \in cl_calls : c.size > 0 /\ c.color \in Palette

\* C5's case: calls for the empty string or a beacon name, one of them with
\* a negative id and one with an id that has no color of its own.
C5_Witness ==
    /\ cl_name \in {<<>>, S_Beacon}
    /\ \E c \in cl_calls : c.user_id < 0
    /\ \E c \in cl_calls : c.user_id > 3
    /\ Cardinality(cl_calls) = 3

\* The ids that have a color of their own.
OwnColorIds == 0..3

\* C6: user_color returns one of exactly five fixed colors: ids 0, 1, 2 and
\* 3 map to four pairwise distinct colors, and every other id (negative, 4
\* or greater, the sentinel 99 of a unit without an owner) maps to one and
\* the same neutral color, which differs from those four.
C6_UserColorFive ==
    /\ Cardinality({FREYA_LIGHT_GREEN, FREYA_LIGHT_BLUE, FREYA_LIGHT_GRAY,
                    FREYA_ORANGE, FREYA_WHITE}) = 5
    /\ \A c \in uc_calls :
           /\ c.color \in {FREYA_LIGHT_GREEN, FREYA_LIGHT_BLUE,
                           FREYA_LIGHT_GRAY, FREYA_ORANGE, FREYA_WHITE}
           /\ c.user_id \notin OwnColorIds => c.color = FREYA_WHITE
    /\ \A c, d \in uc_calls :
           /\ (c.user_id \in OwnColorIds /\ c.user_id # d.user_id)
                  => c.color # d.color
           /\ (c.user_id \notin OwnColorIds /\ d.user_id \notin OwnColorIds)
                  => c.color = d.color
    \* the id register_unit_init passes for a unit without an owner
    /\ \A c \in cl_calls :
           (c.user_id = 99 /\ cl_name \notin TableNames)
               => c.color = FREYA_WHITE

\* C6's case: user_color called for an id with a color of its own, for the
\* sentinel 99 and for a negative id.
C6_Witness ==
    /\ \E c \in uc_calls : c.user_id = 3
    /\ \E c \in uc_calls : c.user_id = 99
    /\ \E c \in uc_calls : c.user_id < 0

\* C7: for a name that matches no table entry the call returns the default
\* size 0.045 with the color user_color(participant id) and emits exactly
\* one diagnostic, except that a name starting with "Beacon" emits none; for
\* a name that matches an entry it emits no diagnostic and size and color
\* are the same for every participant id ("MineralField": 0.048 and
\* light blue).
C7_FallbackAndTable ==
    /\ \A c \in cl_calls :
           /\ cl_name \notin TableNames =>
                  /\ c.size = 45
                  /\ c.color = user_color(c.user_id)
                  /\ c.logs = IF IsBeaconName(cl_name) THEN 0 ELSE 1
           /\ cl_name \in TableNames =>
                  /\ c.logs = 0
                  /\ \A d \in cl_calls :
                         d.size = c.size /\ d.color = c.color
           /\ cl_name = S_MineralField =>
                  c.size = 48 /\ c.color = FREYA_LIGHT_BLUE
    /\ console = IF cl_name \in TableNames \/ IsBeaconName(cl_name)
                 THEN 0
                 ELSE Cardinality(cl_calls)

\* C7's case, on an unknown name: one call, for participant 2, has emitted
\* exactly one diagnostic and returned light gray.
C7_Witness ==
    /\ cl_name \notin TableNames
    /\ ~IsBeaconName(cl_name)
    /\ Len(cl_name) > 6
    /\ cl_calls = {[user_id |-> 2, size |-> 45, color |-> FREYA_LIGHT_GRAY,
                    logs |-> 1]}
    /\ console = 1

---------------------------------------------------------------------------
(* The component App: lib.rs, impl Component for App.                      *)
(*                                                                         *)
(* The program is single-threaded: a user event delivers Msg::Files, and   *)
(* the completion of a file read runs the callback given to read_as_bytes, *)
(* which sends Msg::Loaded; each message is handled by update before the   *)
(* next callback runs.                                                     *)
(*                                                                         *)
(* A panic traps the call it occurs in and nothing is unwound.  The panic  *)
(* of res.expect happens in the read callback before any message is sent:  *)
(* that call ends and the program goes on.  The panic of extraction        *)
(* happens inside update, under yew's scheduler; whether yew still         *)
(* handles messages after a call that never returned is not decided by    *)
(* the source, so both outcomes are taken: halted is TRUE once no message  *)
(* is handled any more.  Read callbacks still run then, and the messages   *)
(* they send stay in the queue.                                            *)

\* Most files uploaded in one behaviour.
MaxFiles == 3

\* Most files in one Msg::Files.
MaxBatch == 2

\* file.name() of the uploaded files.
FileNames == {"a.SC2Replay", "b.SC2Replay"}

\* The contents of the uploaded files: bytes the container parser rejects,
\* a replay, and a replay whose tracker deltas sum past u32::MAX.
FileBytes == {"garbage", "replayA", "replayHuge"}

\* An uploaded gloo File.
UploadedFiles == [name : FileNames, bytes : FileBytes]

\* The Vec<File> of a Msg::Files.
Batches == UNION { [1..k -> UploadedFiles] : k \in 0..MaxBatch }

\* A faulty variant: the parser accepts any bytes.
ParseOk_Always(data) == TRUE

\* parser::parse(&data) returns Ok.
ParseOk(data) == data # "garbage"

\* read_details(&mpq, &data): the Details decoded from the bytes.
ReadDetails(data) == <<"Details", data>>

\* read_message_events(&mpq, &data): the chat messages decoded.
ReadMessageEvents(data) == <<"MessageEvents", data>>

\* read_tracker_events(&mpq, &data): the tracker events decoded.
ReadTrackerEvents(data) ==
    CASE data = "replayA" ->
             << [delta |-> U32(0, 3), event |-> [kind |-> "UnitBorn"]],
                [delta |-> U32(0, 3),
                 event |-> [kind |-> PlayerStatsKind,
                            payload |-> PlayerStatsEvent(
                                1, 50, 25, 15, 12, 100, 75)]],
                [delta |-> U32Zero,
                 event |-> [kind |-> PlayerStatsKind,
                            payload |-> PlayerStatsEvent(
                                2, 75, 0, 250, 199, 600, 150)]] >>
      [] data = "replayHuge" ->
             << [delta |-> U32Max,
                 event |-> [kind |-> PlayerStatsKind,
                            payload |-> PlayerStatsEvent(
                                1, 50, 25, 15, 12, 100, 75)]],
                [delta |-> U32(0, 3),
                 event |-> [kind |-> PlayerStatsKind,
                            payload |-> PlayerStatsEvent(
                                2, 75, 0, 250, 199, 600, 150)]] >>
      [] OTHER -> <<>>

\* ProcessedReplay { details, name, messages, game_snapshots }
ProcessedReplay(file_name, data, game_snapshots) ==
    [name |-> file_name,
     details |-> ReadDetails(data),
     messages |-> ReadMessageEvents(data),
     game_snapshots |-> game_snapshots]

\* self.files.push(replay)
PushReplay(fs, replay) == Append(fs, replay)

\* Dropping the FileReaders in `dropped` (entries of the readers map): a
\* FileReader dropped while its read is in flight aborts the read, and the
\* callback of an aborted read never runs.
DropReaders(ts, dropped) ==
    [u \in DOMAIN ts |->
        IF ts[u].state = "reading" /\ \E r \in dropped : r[2] = u
        THEN [ts[u] EXCEPT !.state = "aborted"]
        ELSE ts[u]]

\* The entries of the map under a key.
EntriesOf(rs, file_name) == {r \in rs : r[1] = file_name}

\* The loop of Msg::Files from file i of the batch on: read_as_bytes starts
\* the read (a new task), and readers.insert replaces, and so drops, the
\* FileReader already stored under the same name.
RECURSIVE StartReads(_, _, _, _)
StartReads(batch, i, ts, rs) ==
    IF i > Len(batch)
    THEN [tasks |-> ts, readers |-> rs]
    ELSE LET file_name == batch[i].name
             task == Len(ts) + 1
             started == Append(ts, [name |-> file_name,
                                    bytes |-> batch[i].bytes,
                                    state |-> "reading"])
             replaced == EntriesOf(rs, file_name)
         IN  StartReads(batch, i + 1,
                        DropReaders(started, replaced),
                        (rs \ replaced) \cup {<<file_name, task>>})

InitApp ==
    /\ overflow_checks \in BOOLEAN
    /\ tasks = <<>>
    /\ readers = {}
    /\ files = <<>>
    /\ completed = <<>>
    /\ halted = FALSE
    /\ console = 0
    /\ ExtractIdle
    /\ ColorIdle
    /\ ArrayIdle
    /\ RenderIdle

\* update(Msg::Files(files)), sent by the drop and change callbacks and
\* handled while messages are handled.
UpdateFiles ==
    \E batch \in Batches :
        /\ ~halted
        /\ Len(tasks) + Len(batch) <= MaxFiles
        /\ LET r == StartReads(batch, 1, tasks, readers)
           IN  tasks' = r.tasks /\ readers' = r.readers
        /\ UNCHANGED <<overflow_checks, files, completed, halted, console,
                       extractVars, colorVars,
                       arrayVars, renderVars>>

\* update(Msg::Loaded(file_name, data)) for the message sent by the callback
\* of read `task`.
UpdateLoaded(task, file_name, data) ==
    IF ~ParseOk(data)
    THEN \* log!("Unable to parse SC2Replay", err); return false
         /\ console' = console + 1
         /\ tasks' = [tasks EXCEPT ![task].state = "skipped"]
         /\ UNCHANGED <<files, readers, halted>>
    ELSE LET r == extract_game_snapshots(ReadTrackerEvents(data),
                                         overflow_checks)
         IN  IF r.panicked
             THEN \* the panic of `frame += event.delta` ends update here
                  /\ halted' \in BOOLEAN
                  /\ tasks' = [tasks EXCEPT ![task].state = "crashed"]
                  /\ UNCHANGED <<files, readers, console>>
             ELSE LET removed == EntriesOf(readers, file_name)
                  IN  /\ files' = PushReplay(
                              files,
                              ProcessedReplay(file_name, data, r.snapshots))
                      /\ readers' = readers \ removed
                      /\ tasks' = DropReaders(
                              [tasks EXCEPT ![task].state = "loaded"],
                              removed)
                      /\ UNCHANGED <<halted, console>>

\* The callback given to read_as_bytes runs with the result of read `task`:
\* res.expect("failed to read file") panics on a read error and the callback
\* ends there; otherwise Msg::Loaded is sent, and handled unless no message
\* is handled any more.
ReadDone ==
    \E task \in DOMAIN tasks, res \in {"Ok", "Err"} :
        /\ tasks[task].state = "reading"
        /\ completed' = Append(completed, task)
        /\ IF res = "Err"
           THEN /\ tasks' = [tasks EXCEPT ![task].state = "failed"]
                /\ UNCHANGED <<files, readers, console, halted>>
           ELSE IF halted
           THEN /\ tasks' = [tasks EXCEPT ![task].state = "queued"]
                /\ UNCHANGED <<files, readers, console, halted>>
           ELSE UpdateLoaded(task, tasks[task].name, tasks[task].bytes)
        /\ UNCHANGED <<overflow_checks, extractVars, colorVars,
                       arrayVars, renderVars>>

Next == UpdateFiles \/ ReadDone

Spec == InitApp /\ [][Next]_vars

---------------------------------------------------------------------------
(* Properties of the component App, stated on the steps and states of      *)
(* Spec.                                                                   *)

\* In this step the callback of read t ran.
CallbackRan(t) == completed' = Append(completed, t)

\* In this step the callback of read t ran with the file's bytes, and
\* Msg::Loaded(name, bytes) was sent and handled.
LoadedHandled(t) ==
    CallbackRan(t) /\ tasks'[t].state \notin {"failed", "queued"}

\* No entry of the collection comes from bytes the parser rejects.
NoEntryFromGarbage ==
    \A i \in 1..Len(files) : files[i].details # <<"Details", "garbage">>

\* C8: when a Loaded message carries bytes the container parser rejects,
\* the file is skipped: the processed-replay collection is left unchanged
\* (no partial result is added), one diagnostic is emitted, and nothing
\* that decides how another file is processed changes: the readers map,
\* every other read (finished or in flight) and the running program are as
\* before.
C8_MalformedSkipped ==
    [][ /\ \A t \in DOMAIN tasks :
               (LoadedHandled(t) /\ tasks[t].bytes = "garbage") =>
                   /\ files' = files
                   /\ console' = console + 1
                   /\ readers' = readers
                   /\ halted' = halted
                   /\ \A u \in DOMAIN tasks \ {t} : tasks'[u] = tasks[u]
        /\ NoEntryFromGarbage' ]_vars

\* C8's case: a malformed file was skipped with one diagnostic, a file whose
\* read completed after it was processed and appended, and a third read is
\* still in flight.
C8_Witness ==
    /\ Len(tasks) = 3
    /\ Len(completed) = 2
    /\ tasks[completed[1]].bytes = "garbage"
    /\ tasks[completed[1]].state = "skipped"
    /\ tasks[completed[2]].state = "loaded"
    /\ \E v \in DOMAIN tasks : tasks[v].state = "reading"
    /\ Len(files) = 1
    /\ console = 1
    /\ ~halted

\* C9 (as claimed): no failure aborts the whole process, so messages are
\* handled in every state; and when the read of one uploaded file fails,
\* only that file's unit of work ends: the step changes nothing of the
\* collection, the readers, the other reads or the running program.
C9_ReadFailureIsolated ==
    /\ []~halted
    /\ [][ \A t \in DOMAIN tasks :
               (CallbackRan(t) /\ tasks'[t].state = "failed") =>
                   /\ files' = files
                   /\ readers' = readers
                   /\ console' = console
                   /\ halted' = halted
                   /\ \A u \in DOMAIN tasks \ {t} : tasks'[u] = tasks[u]
         ]_vars

IsLoaded(t) == tasks[t].state = "loaded"

\* The collection holds, in completion order, one entry for each read whose
\* Loaded message was processed.
OrderedByCompletion ==
    LET loaded == SelectSeq(completed, IsLoaded)
    IN  /\ Len(files) = Len(loaded)
        /\ \A i \in 1..Len(files) :
               i <= Len(loaded) =>
                   /\ files[i].name = tasks[loaded[i]].name
                   /\ files[i].details =
                          <<"Details", tasks[loaded[i]].bytes>>

\* C10 (as claimed): under any interleaving of read completions the
\* processed-replay collection is append-only and ordered by completion:
\* each successfully parsed Loaded message appends exactly one entry at the
\* end, existing entries are never removed, reordered or changed, and the
\* file whose read completed last appears last.
C10_AppendOnlyByCompletion ==
    [][ /\ \/ files' = files
           \/ /\ Len(files') = Len(files) + 1
              /\ SubSeq(files', 1, Len(files)) = files
        /\ \A t \in DOMAIN tasks :
               (LoadedHandled(t) /\ tasks[t].bytes # "garbage") =>
                   /\ Len(files') = Len(files) + 1
                   /\ SubSeq(files', 1, Len(files)) = files
                   /\ files'[Len(files')].name = tasks[t].name
                   /\ files'[Len(files')].details =
                          <<"Details", tasks[t].bytes>>
        /\ OrderedByCompletion' ]_vars


(***************************************************************************)
(* ColorRGBA::to_array (colors.rs).                                        *)
(***************************************************************************)

\* The u8 conversion keeps the low eight bits.
AsU8(x) == x % 256

\* self.0 >> 24 and self.0 >> 16 read the high limb, self.0 >> 8 and
\* self.0 the low one.
Shr24(c) == c[1] \div 256
Shr16(c) == c[1]
Shr8(c) == c[1] * 256 + (c[2] \div 256)
Shr0(c) == c[2]

\* to_array with the bytes in the opposite order.
to_array_LowFirst(c) ==
    <<c[2] % 256, c[2] \div 256, c[1] % 256, c[1] \div 256>>

\* [(self.0 >> 24) as u8, (self.0 >> 16) as u8, (self.0 >> 8) as u8,
\*  self.0 as u8]
to_array(c) ==
    <<AsU8(Shr24(c)), AsU8(Shr16(c)), AsU8(Shr8(c)), AsU8(Shr0(c))>>

\* Limb values at the byte boundaries.
ArrayLimbs == {0, 1, 255, 256, 4660, 65280, 65535}

\* The colours given to to_array: the palette and values whose four bytes
\* are all set or all different.
ArrayInputs == Palette \cup {ColorRGBA(hi, lo) : hi, lo \in ArrayLimbs}

InitArray ==
    /\ overflow_checks = FALSE
    /\ arr_in \in ArrayInputs
    /\ arr_out = <<>>
    /\ console = 0
    /\ ExtractIdle
    /\ ColorIdle
    /\ AppIdle
    /\ RenderIdle

ToArrayCall ==
    /\ arr_out = <<>>
    /\ arr_out' = <<to_array(arr_in)>>
    /\ UNCHANGED <<overflow_checks, console, arr_in, extractVars, colorVars,
                   appVars, renderVars>>

NextArray == ToArrayCall

SpecArray == InitArray /\ [][NextArray]_vars

\* C13: to_array gives the four bytes of the packed value, most significant
\* first (R = bits 31..24, G = bits 23..16, B = bits 15..8, fourth = bits
\* 7..0), and the fourth component of every palette constant is 0.
C13_BytesMostSignificantFirst ==
    arr_out # <<>> =>
        LET a == arr_out[1]
        IN  /\ Len(a) = 4
            /\ \A i \in 1..4 : a[i] \in 0..255
            /\ a[1] * 256 + a[2] = arr_in[1]
            /\ a[3] * 256 + a[4] = arr_in[2]
            /\ arr_in \in Palette => a[4] = 0
            /\ arr_in = FREYA_ORANGE => a = <<235, 121, 7, 0>>
            /\ arr_in = FREYA_WHITE => a = <<250, 248, 251, 0>>

\* to_array has been applied to a palette constant with three different
\* non-zero colour bytes.
C13_Witness ==
    /\ arr_in = FREYA_LIGHT_GREEN
    /\ arr_out = <<(<<110, 194, 156, 0>>)>>

(***************************************************************************)
(* App::rendered, App::render_gl and the animation loop (lib.rs).          *)
(*                                                                         *)
(* rendered unwraps the canvas and its WebGL context, and render_gl        *)
(* unwraps the buffer, the shaders and the program it creates: where the   *)
(* page does not provide one of them the call panics there.  rendered is   *)
(* called by yew's scheduler, so after such a panic both outcomes are      *)
(* taken, as for update.  request_animation_frame unwraps window() and    *)
(* expects the registration to succeed: where either fails the call        *)
(* panics and no callback is scheduled; inside the animation callback the  *)
(* panic ends that callback only.  `timestamp` is an f64 (a float literal with no   *)
(* other constraint); every value it takes here is an integer below 2^53,  *)
(* so its additions are exact.  The uniform takes `timestamp as f32`.      *)
(***************************************************************************)

MaxRendered == 6
MaxFrames == 8
\* A loop that has been running for this many callbacks.
LateFrames == 3355443

TimeStep == 20
\* An f32 has 24 significant bits.
F32Significand == 16777216

RECURSIVE F32Ulp(_, _)
\* The spacing of the f32 values around x, a non-negative integer.
F32Ulp(x, u) == IF x \div u < F32Significand THEN u ELSE F32Ulp(x, 2 * u)

\* `x as f32` for a non-negative integer x: the nearest f32, ties to the
\* even significand.
AsF32(x) ==
    LET u == F32Ulp(x, 1)
        r == x % u
        low == x - r
    IN  IF 2 * r < u THEN low
        ELSE IF 2 * r > u THEN low + u
        ELSE IF (low \div u) % 2 = 0 THEN low
        ELSE low + u

\* What the page provides: everything; no canvas or no WebGL context
\* (an unwrap of rendered panics); a context that fails to create a buffer,
\* a shader or the program (an unwrap of render_gl panics).
WebGLSupport == {"ok", "no_context", "no_resource"}

\* yew passes first_render = true to the first call of rendered only.
FirstRender == rendered_count = 0

\* rendered that starts the loop at every call.
StartsRenderLoop_Always(first_render) == TRUE

\* if !first_render { return; }
StartsRenderLoop(first_render) == first_render

\* timestamp = 20.0 in place of timestamp += 20.0.
AdvanceTimestamp_Reset(timestamp) == TimeStep

\* timestamp += 20.0
AdvanceTimestamp(timestamp) == timestamp + TimeStep

\* App::request_animation_frame for the closure of loop l: one callback is
\* scheduled, unless window().unwrap() or .expect(..) panics (not ok).
RequestAnimationFrame(p, l, ok) == IF ok THEN [p EXCEPT ![l] = @ + 1] ELSE p

\* The browser takes a scheduled callback of loop l to run it.
TakeCallback(p, l) == [p EXCEPT ![l] = @ - 1]

\* render_gl: timestamp = 0.0, the buffer, shaders and program (unwrapped),
\* the uniform, the first draw, the closure and the first
\* request_animation_frame.
render_gl ==
    /\ render_gl_calls' = render_gl_calls + 1
    /\ IF webgl = "no_resource"
       THEN /\ halted' \in BOOLEAN
            /\ UNCHANGED <<loops, u_time, draws, pending, raf_panicked>>
       ELSE \E raf_ok \in BOOLEAN :
            /\ loops' = Append(loops, 0)
            /\ u_time' = AsF32(0)
            /\ draws' = draws + 1
            /\ pending' = RequestAnimationFrame(Append(pending, 0),
                                                Len(pending) + 1, raf_ok)
            /\ raf_panicked' = (raf_panicked \/ ~raf_ok)
            /\ IF raf_ok THEN UNCHANGED halted ELSE halted' \in BOOLEAN

\* The state of a component whose loop has run LateFrames callbacks.
RenderLate ==
    /\ webgl = "ok"
    /\ raf_panicked = FALSE
    /\ rendered_count = 1
    /\ render_gl_calls = 1
    /\ loops = <<TimeStep * LateFrames>>
    /\ pending = <<1>>
    /\ u_time = AsF32(TimeStep * LateFrames)
    /\ draws = 1 + LateFrames
    /\ frames = LateFrames

\* The component before its first render, on any page.
RenderFresh ==
    /\ webgl \in WebGLSupport
    /\ raf_panicked = FALSE
    /\ rendered_count = 0
    /\ render_gl_calls = 0
    /\ loops = <<>>
    /\ pending = <<>>
    /\ u_time = 0
    /\ draws = 0
    /\ frames = 0

InitRender ==
    /\ overflow_checks = FALSE
    /\ console = 0
    /\ ExtractIdle
    /\ ColorIdle
    /\ AppIdle
    /\ ArrayIdle
    /\ RenderFresh \/ RenderLate

\* fn rendered(&mut self, _ctx, first_render), called by yew while it
\* handles messages.
Rendered ==
    /\ ~halted
    /\ rendered_count < MaxRendered
    /\ rendered_count' = rendered_count + 1
    /\ IF ~StartsRenderLoop(FirstRender)
       THEN UNCHANGED <<render_gl_calls, loops, u_time, draws, pending,
                        halted, raf_panicked>>
       ELSE IF webgl = "no_context"
       THEN \* an unwrap of lib.rs:195-201 panics before render_gl
            /\ halted' \in BOOLEAN
            /\ UNCHANGED <<render_gl_calls, loops, u_time, draws, pending,
                           raf_panicked>>
       ELSE render_gl
    /\ UNCHANGED <<overflow_checks, console, frames, webgl, tasks, readers,
                   files, completed, extractVars, colorVars, arrayVars>>

\* The behaviour is followed for MaxFrames callbacks.
FramesLeft ==
    \/ frames < MaxFrames
    \/ frames >= LateFrames /\ frames < LateFrames + MaxFrames

\* The closure given to request_animation_frame, run for loop l.
AnimationFrame ==
    \E l \in DOMAIN loops, raf_ok \in BOOLEAN :
        /\ pending[l] > 0
        /\ FramesLeft
        /\ loops' = [loops EXCEPT ![l] = AdvanceTimestamp(@)]
        /\ u_time' = AsF32(loops'[l])
        /\ draws' = draws + 1
        /\ pending' = RequestAnimationFrame(TakeCallback(pending, l), l,
                                            raf_ok)
        /\ raf_panicked' = (raf_panicked \/ ~raf_ok)
        /\ frames' = frames + 1
        /\ UNCHANGED <<overflow_checks, console, rendered_count,
                       render_gl_calls, webgl, extractVars, colorVars,
                       appVars, arrayVars>>

NextRender == Rendered \/ AnimationFrame

SpecRender == InitRender /\ [][NextRender]_vars

\* render_gl has reached the set-up of its loop: its timestamp exists.
LoopStarted == Len(loops) = 1

\* C11 (as claimed): over any sequence of rendered callbacks, the first
\* with first_render true and the others with first_render false, render_gl
\* runs exactly once, so at most one animation loop is ever running.
C11_RenderGlRunsOnce ==
    /\ rendered_count = 0 => render_gl_calls = 0
    /\ rendered_count >= 1 => render_gl_calls = 1
    /\ Len(loops) <= 1

\* C11 (amended): over any such sequence render_gl runs at most once, and
\* only in the first callback; it runs exactly once when that callback
\* obtains the canvas and its WebGL context, and not at all when it does
\* not; at most one animation loop is ever running, and exactly one when
\* render_gl also creates its buffer, shaders and program and no call of
\* request_animation_frame has panicked.
C11_RenderGlAtMostOnce ==
    /\ render_gl_calls <= 1
    /\ rendered_count = 0 => render_gl_calls = 0
    /\ (rendered_count >= 1 /\ webgl # "no_context") => render_gl_calls = 1
    /\ webgl = "no_context" => render_gl_calls = 0
    /\ Len(loops) <= render_gl_calls
    /\ Len(pending) = Len(loops)
    /\ \A l \in DOMAIN pending : pending[l] <= 1
    /\ (rendered_count >= 1 /\ webgl = "ok" /\ ~raf_panicked) =>
           pending = <<1>>
    /\ raf_panicked => (LoopStarted /\ pending = <<0>>)
    /\ webgl # "ok" => loops = <<>>

\* rendered has been called with first_render true and at least twice with
\* first_render false, render_gl has run once and its loop has run.
C11_Witness ==
    /\ rendered_count >= 3
    /\ render_gl_calls = 1
    /\ frames >= 2

HeldReaders == {r[2] : r \in readers}

\* The tasks whose read is in flight.
InFlight == {t \in DOMAIN tasks : tasks[t].state = "reading"}

\* No call has panicked: no read failed and no update was cut short.
NoPanic ==
    \A t \in DOMAIN tasks :
        tasks[t].state \notin {"failed", "crashed", "queued"}

\* C14 (as claimed): as long as nothing has panicked, the readers map holds
\* exactly the reads still in flight: once the Loaded message of a file has
\* been handled, whether its bytes parsed or not, its entry is gone, and
\* the map is empty whenever no read is in flight.
C14_ReadersAreInFlight ==
    (~halted /\ NoPanic) =>
        /\ HeldReaders = InFlight
        /\ InFlight = {} => readers = {}

\* C15 (as claimed): every submitted file produces its own Loaded message,
\* also when its name is shared with an earlier file still in flight: as
\* long as nothing has panicked, each submitted file either has had its
\* Loaded message handled (appended or skipped) or has its read still in
\* flight, so that the message can still come.
C15_EveryFileLoaded ==
    (~halted /\ NoPanic) =>
        \A t \in DOMAIN tasks :
            tasks[t].state \in {"reading", "loaded", "skipped"}

============================================================================
